---- MODULE Spec2Model ----
(***************************************************************************)
(* A model of arcl::thread_pool and arcl::run_in_parallel                  *)
(* (src/include/arclib/thread.h).                                          *)
(*                                                                         *)
(* Threads: the worker threads spawned by start() run work_loop; the       *)
(* client threads (the main thread and one other thread) call the public   *)
(* member functions.  Every function is cut into steps at the points where *)
(* it acquires the pool mutex, blocks on a condition variable, notifies a  *)
(* condition variable or joins a thread; what lies between two such points *)
(* is one step.                                                            *)
(***************************************************************************)
EXTENDS Integers, Sequences, FiniteSets, TLC

\* ------------------------------------------------------------------ bounds
MaxWorkers == 2
MaxJobs == 3
MaxTerminates == 2
MaxRange == 4
MaxFactor == 2
MaxMinChunk == 2
MaxPending == 1
MaxBytes == 2
MaxBitOps == 3
MaxByteOps == 1

Workers == 1..MaxWorkers
Main == MaxWorkers + 1
Other == MaxWorkers + 2
Clients == {Main, Other}
Jobs == 1..(MaxJobs + MaxRange)
Indices == 0..(MaxRange - 1)

\* the value of the _workers pointer when it owns no array
Null == [alloc |-> FALSE, handles |-> <<>>]
\* new std::thread[n], holding the handles hs
Array(hs) == [alloc |-> TRUE, handles |-> hs]

VARIABLES
    num_workers,  \* _num_workers
    num_jobs,     \* _num_jobs
    workers,      \* _workers: Null, or the array of thread handles (thread ids)
    job_queue,    \* _job_queue
    running,      \* _running
    mtx,          \* _mtx: the set of threads that hold it
    cv_workers,   \* _cv_workers: the threads blocked in its wait
    cv_wait,      \* _cv_wait: the threads blocked in its wait
    tpc,          \* where each worker thread is in work_loop
    tjob,         \* work_loop's local `job` (0: none)
    cpc,          \* where each client thread is
    cret,         \* which function the client's wait() was called from
    join_i,       \* terminate()'s loop index i
    failed,       \* how the process died, "none" while it is alive
    null_touched, \* terminate() has dereferenced _workers while it was nullptr
    started,      \* start() has been called
    term_calls,   \* number of terminate() calls made
    enq_count,    \* number of jobs pushed so far; job k is the k-th pushed
    executed,     \* executed[k]: how many times job k's body has run
    deq_log,      \* the jobs in the order they left the queue
    fin,          \* finish(): "none" not called; "active" called, as the first
                  \* shutdown call; "returned"; "void" once a job was pushed after
                  \* the call, or when terminate() had been called before it
    term_snap,    \* what the latest terminate() found when it cleared _running:
                  \* whether jobs were queued, whether jobs were in execution
    wait_overlap, \* two threads have been inside wait() at the same time
    par,          \* run_in_parallel's arguments and locals
    chunk,        \* chunk[k]: the index range <<it, it_end>> job k captured
    visited,      \* visited[i]: how many times func was applied to element i
    applied,      \* the applications of func in order, each <<thread, index>>
    bf_block,     \* bitfield::_field: 0 for nullptr, else the id of the block
    bf_freed,     \* the block _field points to has been freed
    bf_alloc,     \* bitfield::_alloc
    bf_data,      \* the bytes of the block _field points to (uint8 values)
    ref,          \* a stored bitfield::bitref: its block, byte index and mask
    b_val,        \* byte::_val of a byte b
    bit_ops,      \* number of bitfield operations applied so far
    last          \* the latest bitfield or byte operation and its arguments

vars == <<num_workers, num_jobs, workers, job_queue, running, mtx, cv_workers,
          cv_wait, tpc, tjob, cpc, cret, join_i, failed, null_touched, started,
          term_calls, enq_count, executed, deq_log, fin, term_snap,
          wait_overlap, par, chunk, visited, applied, bf_block, bf_freed,
          bf_alloc, bf_data, ref, b_val, bit_ops, last>>

pool == <<num_workers, num_jobs, workers, job_queue, running>>
hist == <<started, term_calls, enq_count, executed, deq_log>>
notes == <<fin, term_snap, wait_overlap>>
parv == <<par, chunk, visited, applied>>
bitv == <<bf_block, bf_freed, bf_alloc, bf_data, ref, b_val, bit_ops, last>>

NoPar == [range_size |-> 0, schedule_factor |-> 1, min_chunk_size |-> 1,
          num_chunks |-> 0, chunk_size |-> 0, idx_begin |-> 0, idx_end |-> 0]

\* no bitref is stored, no operation has been applied
NoRef == [block |-> 0, bit |-> 0]
NoOp == [op |-> "none", a |-> 0, b |-> 0, v |-> FALSE]

\* bitfield.h lines 54-55: a default-constructed bitfield (_field nullptr,
\* _alloc 0); byte.h lines 115-116: a default-constructed byte (_val 0)
BitIdle ==
    /\ bf_block = 0
    /\ bf_freed = FALSE
    /\ bf_alloc = 0
    /\ bf_data = <<>>
    /\ ref = NoRef
    /\ b_val = 0
    /\ bit_ops = 0
    /\ last = NoOp

\* what is not a member of the pool: threads, locals, history
InitRest ==
    /\ mtx = {}
    /\ cv_workers = {}
    /\ cv_wait = {}
    /\ tjob = [w \in Workers |-> 0]
    /\ cret = [c \in Clients |-> "none"]
    /\ join_i = 0
    /\ failed = "none"
    /\ null_touched = FALSE
    /\ term_calls = 0
    /\ executed = [j \in Jobs |-> 0]
    /\ deq_log = <<>>
    /\ fin = "none"
    /\ term_snap = [cleared |-> FALSE, queued |-> FALSE, busy |-> FALSE]
    /\ wait_overlap = FALSE
    /\ chunk = [j \in Jobs |-> <<0, 0>>]
    /\ visited = [i \in Indices |-> 0]
    /\ applied = <<>>

\* a constructor that leaves _num_workers at 1
Init_OneWorker ==
    /\ num_workers = 1
    /\ num_jobs = 0
    /\ workers = Null
    /\ job_queue = <<>>
    /\ running = FALSE
    /\ tpc = [w \in Workers |-> "none"]
    /\ cpc = [c \in Clients |-> "idle"]
    /\ started = FALSE
    /\ enq_count = 0
    /\ par = NoPar
    /\ InitRest
    /\ BitIdle

\* ------------------------------------------------------------ constructor
\* thread_pool(): _num_workers(0), _num_jobs(0), _workers(nullptr), _running(false)
Init ==
    /\ num_workers = 0
    /\ num_jobs = 0
    /\ workers = Null
    /\ job_queue = <<>>
    /\ running = FALSE
    /\ tpc = [w \in Workers |-> "none"]
    /\ cpc = [c \in Clients |-> "idle"]
    /\ started = FALSE
    /\ enq_count = 0
    /\ par = NoPar
    /\ InitRest
    /\ BitIdle

\* ---------------------------------------------------------------- helpers
Alive == failed = "none"

\* a mutex that is granted while another thread holds it
CanLock_Always == TRUE

\* std::unique_lock<std::mutex> lock(_mtx) / lock.lock(): blocks while held
CanLock == mtx = {}
Lock(t) == mtx' = mtx \cup {t}
Unlock(t) == mtx' = mtx \ {t}
Holds(t) == t \in mtx

\* the predicate of _cv_workers.wait in work_loop
WorkPred == ~running \/ num_jobs # 0

\* a worker that goes on taking jobs while the queue is not empty
StillRunning_Drain == running \/ job_queue # <<>>

\* line 193: if (_running)
StillRunning == running

\* a wait() that returns while one job is still outstanding
WaitPred_AtMostOne == num_jobs <= 1

\* a wait() that blocks whatever the counter is
WaitPred_Never == FALSE

\* wait() written to wait for an empty queue instead of a zero counter
WaitPred_QueueEmpty == job_queue = <<>>

\* the predicate of _cv_wait.wait in wait()
WaitPred == num_jobs = 0

\* a job that is counted but not put in the queue
Emplace_Drop(q, j) == q

\* a job pushed at the front of the queue
Emplace_Front(q, j) == <<j>> \o q

\* _job_queue.emplace(job)
Emplace(q, j) == Append(q, j)
\* _job_queue.front()
Front(q) == Head(q)
\* _job_queue.pop()
Pop(q) == Tail(q)

\* an enqueue that does not count the job, a completion that is not counted
Inc_Skip(n) == n
Dec_None(n) == n

\* _num_jobs++ and _num_jobs-- on a uint32.  Every decrement follows the
\* increment of the job it finishes and at most MaxJobs jobs are pushed, so the
\* counter stays in 0..MaxJobs and never wraps (TypeOK checks it).
Inc(n) == n + 1
Dec(n) == n - 1

\* ------------------------------------------------------------- work_loop
\* line 185 / the re-lock inside _cv_workers.wait after a wake-up
WorkerLock(w) ==
    /\ Alive /\ tpc[w] = "lock" /\ CanLock
    /\ Lock(w)
    /\ tpc' = [tpc EXCEPT ![w] = "locked"]
    /\ UNCHANGED <<pool, cv_workers, cv_wait, tjob, cpc, cret, join_i, failed, null_touched, bitv, hist, notes, parv>>

\* lines 188-190: the predicate is false, the thread releases the mutex and blocks
WorkerBlock(w) ==
    /\ Alive /\ tpc[w] = "locked" /\ Holds(w)
    /\ ~WorkPred
    /\ Unlock(w)
    /\ cv_workers' = cv_workers \cup {w}
    /\ tpc' = [tpc EXCEPT ![w] = "blocked"]
    /\ UNCHANGED <<pool, cv_wait, tjob, cpc, cret, join_i, failed, null_touched, bitv, hist, notes, parv>>

\* a worker that keeps the mutex while it runs the job
WorkerTake_KeepLock(w) ==
    /\ Alive /\ tpc[w] = "locked" /\ Holds(w)
    /\ WorkPred /\ StillRunning
    /\ job_queue # <<>>
    /\ tjob' = [tjob EXCEPT ![w] = Front(job_queue)]
    /\ job_queue' = Pop(job_queue)
    /\ deq_log' = Append(deq_log, Front(job_queue))
    /\ tpc' = [tpc EXCEPT ![w] = "exec"]
    /\ UNCHANGED <<num_workers, num_jobs, workers, running, mtx, cv_workers,
                   cv_wait, cpc, cret, join_i, failed, null_touched, bitv,
                   started, term_calls, enq_count, executed, notes, parv>>

\* lines 193-199: predicate true and _running: fetch the front job, unlock
WorkerTake(w) ==
    /\ Alive /\ tpc[w] = "locked" /\ Holds(w)
    /\ WorkPred /\ StillRunning
    /\ job_queue # <<>>
    /\ tjob' = [tjob EXCEPT ![w] = Front(job_queue)]
    /\ job_queue' = Pop(job_queue)
    /\ deq_log' = Append(deq_log, Front(job_queue))
    /\ Unlock(w)
    /\ tpc' = [tpc EXCEPT ![w] = "exec"]
    /\ UNCHANGED <<num_workers, num_jobs, workers, running, cv_workers, cv_wait,
                   cpc, cret, join_i, failed, null_touched, bitv, started, term_calls, enq_count,
                   executed, notes, parv>>

\* line 194: predicate true and _running, but the queue is empty:
\* assert(!_job_queue.empty()) fails and the process is aborted
WorkerAssertFail(w) ==
    /\ Alive /\ tpc[w] = "locked" /\ Holds(w)
    /\ WorkPred /\ StillRunning
    /\ job_queue = <<>>
    /\ failed' = "assert"
    /\ UNCHANGED <<null_touched, bitv, pool, mtx, cv_workers, cv_wait, tpc, tjob, cpc, cret, join_i, hist, notes, parv>>

\* line 206: predicate true and not _running: break, the lock is released on return
WorkerExit(w) ==
    /\ Alive /\ tpc[w] = "locked" /\ Holds(w)
    /\ WorkPred /\ ~StillRunning
    /\ Unlock(w)
    /\ tpc' = [tpc EXCEPT ![w] = "exited"]
    /\ UNCHANGED <<pool, cv_workers, cv_wait, tjob, cpc, cret, join_i, failed, null_touched, bitv, hist, notes, parv>>

\* lines 267-269: the chunk job applies func to *it for it in [it, it_end)
InChunk(i, ch) == ch[1] <= i /\ i < ch[2]

\* line 200: job(), with the mutex released; a job enqueued by enqueue_job
\* directly is counted in executed only (its chunk is empty)
WorkerRun(w) ==
    /\ Alive /\ tpc[w] = "exec"
    /\ executed' = [executed EXCEPT ![tjob[w]] = @ + 1]
    /\ visited' = [i \in Indices |->
                     IF InChunk(i, chunk[tjob[w]]) THEN visited[i] + 1 ELSE visited[i]]
    /\ applied' = applied \o [k \in 1..(chunk[tjob[w]][2] - chunk[tjob[w]][1]) |->
                                <<w, chunk[tjob[w]][1] + k - 1>>]
    /\ tpc' = [tpc EXCEPT ![w] = "relock"]
    /\ UNCHANGED <<pool, mtx, cv_workers, cv_wait, tjob, cpc, cret, join_i, failed,
                   null_touched, bitv, started, term_calls, enq_count, deq_log, notes,
                   par, chunk>>

\* a completion that notifies nobody
NotifyOneWaiter_None == UNCHANGED <<cv_wait, cpc>>

\* _cv_wait.notify_one(): wakes one of the threads blocked on _cv_wait, if any
NotifyOneWaiter ==
    IF cv_wait = {} THEN UNCHANGED <<cv_wait, cpc>>
    ELSE \E c \in cv_wait :
            /\ cv_wait' = cv_wait \ {c}
            /\ cpc' = [cpc EXCEPT ![c] = "wait_wake"]

\* a completion that is counted without taking the mutex again
WorkerFinish_NoLock(w) ==
    /\ Alive /\ tpc[w] = "relock"
    /\ num_jobs' = Dec(num_jobs)
    /\ NotifyOneWaiter
    /\ tjob' = [tjob EXCEPT ![w] = 0]
    /\ tpc' = [tpc EXCEPT ![w] = "lock"]
    /\ UNCHANGED <<num_workers, workers, job_queue, running, mtx, cv_workers,
                   cret, join_i, failed, null_touched, bitv, hist, notes, parv>>

\* lines 203-205: lock.lock(); _num_jobs--; _cv_wait.notify_one(); the thread
\* keeps the mutex and goes back to the wait at line 188
WorkerFinish(w) ==
    /\ Alive /\ tpc[w] = "relock" /\ CanLock
    /\ Lock(w)
    /\ num_jobs' = Dec(num_jobs)
    /\ NotifyOneWaiter
    /\ tjob' = [tjob EXCEPT ![w] = 0]
    /\ tpc' = [tpc EXCEPT ![w] = "locked"]
    /\ UNCHANGED <<num_workers, workers, job_queue, running, cv_workers, cret,
                   join_i, failed, null_touched, bitv, hist, notes, parv>>

\* ----------------------------------------------------------------- start
\* line 74: start() takes the mutex (start() is called once in the lifetime
\* of the pool, as its documentation asks)
StartLock ==
    /\ Alive /\ cpc[Main] = "idle" /\ ~started /\ CanLock
    /\ Lock(Main)
    /\ started' = TRUE
    /\ cpc' = [cpc EXCEPT ![Main] = "start"]
    /\ UNCHANGED <<pool, cv_workers, cv_wait, tpc, tjob, cret, join_i, failed, null_touched, bitv,
                   term_calls, enq_count, executed, deq_log, notes, parv>>

\* the worker threads that have been spawned so far
Spawned == {w \in Workers : tpc[w] # "none"}
\* the thread ids not yet given to a thread
Fresh == Workers \ Spawned
\* the n threads constructed at line 80, in the order of the array
NewThreads(n) ==
    [i \in 1..n |-> CHOOSE w \in Fresh : Cardinality({v \in Fresh : v < w}) = i - 1]

\* lines 77-81: _num_workers is set, the worker array is allocated (the old
\* pointer is overwritten) and n worker threads are spawned; each begins
\* work_loop at its lock (line 185) while start() still holds the mutex
StartBody(n) ==
    /\ Alive /\ cpc[Main] = "start" /\ Holds(Main)
    /\ n <= Cardinality(Fresh)
    /\ num_workers' = n
    /\ workers' = Array(NewThreads(n))
    /\ tpc' = [w \in Workers |->
                 IF \E i \in 1..n : NewThreads(n)[i] = w THEN "lock" ELSE tpc[w]]
    /\ cpc' = [cpc EXCEPT ![Main] = "start_run"]
    /\ UNCHANGED <<num_jobs, job_queue, running, mtx, cv_workers, cv_wait, tjob,
                   cret, join_i, failed, null_touched, bitv, hist, notes, parv>>

\* lines 82-83: _running = true; the mutex is released on return
StartRun ==
    /\ Alive /\ cpc[Main] = "start_run" /\ Holds(Main)
    /\ running' = TRUE
    /\ Unlock(Main)
    /\ cpc' = [cpc EXCEPT ![Main] = "idle"]
    /\ UNCHANGED <<num_workers, num_jobs, workers, job_queue, cv_workers, cv_wait,
                   tpc, tjob, cret, join_i, failed, null_touched, bitv, hist, notes, parv>>

\* ----------------------------------------------------------- num_workers
\* a count of the workers blocked waiting for work
NumWorkers_Blocked == Cardinality(cv_workers)

\* lines 151-153: num_workers() returns _num_workers
NumWorkers == num_workers

\* ----------------------------------------------------------- enqueue_job
\* line 127: enqueue_job takes the mutex
EnqLock(c) ==
    /\ Alive /\ cpc[c] = "idle" /\ enq_count < MaxJobs /\ CanLock
    /\ Lock(c)
    /\ cpc' = [cpc EXCEPT ![c] = "enq"]
    /\ UNCHANGED <<pool, cv_workers, cv_wait, tpc, tjob, cret, join_i, failed, null_touched, bitv, hist, notes, parv>>

\* lines 128-130: push the job, count it, release the mutex
EnqBody(c) ==
    /\ Alive /\ cpc[c] = "enq" /\ Holds(c)
    /\ job_queue' = Emplace(job_queue, enq_count + 1)
    /\ num_jobs' = Inc(num_jobs)
    /\ enq_count' = enq_count + 1
    /\ chunk' = [chunk EXCEPT ![enq_count + 1] =
                     IF cret[c] = "par" THEN <<par.idx_begin, par.idx_end>>
                     ELSE <<0, 0>>]
    /\ fin' = IF fin = "none" THEN "none" ELSE "void"
    /\ Unlock(c)
    /\ cpc' = [cpc EXCEPT ![c] = "enq_notify"]
    /\ UNCHANGED <<num_workers, workers, running, cv_workers, cv_wait, tpc, tjob,
                   cret, join_i, failed, null_touched, bitv, started, term_calls,
                   executed, deq_log, term_snap, wait_overlap, par, visited,
                   applied>>

\* _cv_workers.notify_one(): wakes one of the threads blocked on _cv_workers, if any
NotifyOneWorker ==
    IF cv_workers = {} THEN UNCHANGED <<cv_workers, tpc>>
    ELSE \E w \in cv_workers :
            /\ cv_workers' = cv_workers \ {w}
            /\ tpc' = [tpc EXCEPT ![w] = "lock"]

\* line 131: _cv_workers.notify_one(); enqueue_job returns (into the loop of
\* run_in_parallel when it was called from there)
EnqNotify(c) ==
    /\ Alive /\ cpc[c] = "enq_notify"
    /\ NotifyOneWorker
    /\ cpc' = [cpc EXCEPT ![c] = IF cret[c] = "par" THEN "par_next" ELSE "idle"]
    /\ UNCHANGED <<pool, mtx, cv_wait, tjob, cret, join_i, failed, null_touched, bitv,
                   hist, notes, parv>>

\* ------------------------------------------------------------------ wait
InWait(c) == cpc[c] \in {"wait_locked", "wait_blocked", "wait_wake"}
OtherInWait(c) == \E d \in Clients \ {c} : InWait(d)

\* line 139, and the re-lock inside _cv_wait.wait after a wake-up
WaitLock(c) ==
    /\ Alive /\ cpc[c] \in {"idle", "wait_wake"} /\ CanLock
    /\ Lock(c)
    /\ cpc' = [cpc EXCEPT ![c] = "wait_locked"]
    /\ wait_overlap' = (wait_overlap \/ (cpc[c] = "idle" /\ OtherInWait(c)))
    /\ UNCHANGED <<pool, cv_workers, cv_wait, tpc, tjob, cret, join_i, failed,
                   null_touched, bitv, hist, fin, term_snap, parv>>

\* line 140: the predicate is false, the thread releases the mutex and blocks
WaitBlock(c) ==
    /\ Alive /\ cpc[c] = "wait_locked" /\ Holds(c)
    /\ ~WaitPred
    /\ Unlock(c)
    /\ cv_wait' = cv_wait \cup {c}
    /\ cpc' = [cpc EXCEPT ![c] = "wait_blocked"]
    /\ UNCHANGED <<pool, cv_workers, tpc, tjob, cret, join_i, failed, null_touched, bitv, hist, notes, parv>>

\* lines 140-141: the predicate is true, wait() returns; inside finish() the
\* thread goes on to terminate() (line 90), inside run_in_parallel it returns
\* from it (line 278)
WaitReturn(c) ==
    /\ Alive /\ cpc[c] = "wait_locked" /\ Holds(c)
    /\ WaitPred
    /\ Unlock(c)
    /\ cpc' = [cpc EXCEPT ![c] = CASE cret[c] = "finish" -> "term_call"
                                    [] cret[c] = "par" -> "par_done"
                                    [] OTHER -> "idle"]
    /\ UNCHANGED <<pool, cv_workers, cv_wait, tpc, tjob, cret, join_i, failed,
                   null_touched, bitv, hist, notes, parv>>

\* finish() that goes to terminate() without waiting
FinishCall_NoWait ==
    /\ Alive /\ cpc[Main] = "idle" /\ term_calls < MaxTerminates
    /\ cpc' = [cpc EXCEPT ![Main] = "term_call"]
    /\ cret' = [cret EXCEPT ![Main] = "finish"]
    /\ fin' = IF fin = "none" /\ term_calls = 0 THEN "active" ELSE "void"
    /\ UNCHANGED <<pool, mtx, cv_workers, cv_wait, tpc, tjob, join_i, failed,
                   null_touched, bitv, hist, term_snap, wait_overlap, parv>>

\* ---------------------------------------------------------------- finish
\* lines 88-89: finish() calls wait()
FinishCall ==
    /\ Alive /\ cpc[Main] = "idle" /\ term_calls < MaxTerminates /\ CanLock
    /\ Lock(Main)
    /\ cpc' = [cpc EXCEPT ![Main] = "wait_locked"]
    /\ cret' = [cret EXCEPT ![Main] = "finish"]
    /\ fin' = IF fin = "none" /\ term_calls = 0 THEN "active" ELSE "void"
    /\ wait_overlap' = (wait_overlap \/ OtherInWait(Main))
    /\ UNCHANGED <<pool, cv_workers, cv_wait, tpc, tjob, join_i, failed,
                   null_touched, bitv, hist, term_snap, parv>>

\* ------------------------------------------------------------- terminate
\* line 99: terminate() (called directly, from finish() or by the destructor)
\* takes the mutex
TermLock ==
    /\ Alive /\ CanLock
    /\ \/ cpc[Main] = "idle" /\ term_calls < MaxTerminates
       \/ cpc[Main] = "term_call"
    /\ Lock(Main)
    /\ term_calls' = term_calls + 1
    /\ cpc' = [cpc EXCEPT ![Main] = "term_locked"]
    /\ UNCHANGED <<pool, cv_workers, cv_wait, tpc, tjob, cret, join_i, failed, null_touched, bitv,
                   started, enq_count, executed, deq_log, notes, parv>>

\* lines 100-101: clear _running, release the mutex
Busy == {w \in Workers : tpc[w] \in {"exec", "relock"}}

TermBody ==
    /\ Alive /\ cpc[Main] = "term_locked" /\ Holds(Main)
    /\ running' = FALSE
    /\ Unlock(Main)
    /\ cpc' = [cpc EXCEPT ![Main] = "term_notify"]
    /\ term_snap' = [cleared |-> TRUE, queued |-> job_queue # <<>>,
                     busy |-> Busy # {}]
    /\ UNCHANGED <<num_workers, num_jobs, workers, job_queue, cv_workers, cv_wait,
                   tpc, tjob, cret, join_i, failed, null_touched, bitv, hist, fin,
                   wait_overlap, parv>>

\* line 104: _cv_workers.notify_all()
TermNotify ==
    /\ Alive /\ cpc[Main] = "term_notify"
    /\ tpc' = [w \in Workers |-> IF w \in cv_workers THEN "lock" ELSE tpc[w]]
    /\ cv_workers' = {}
    /\ join_i' = 0
    /\ cpc' = [cpc EXCEPT ![Main] = "term_join"]
    /\ UNCHANGED <<pool, mtx, cv_wait, tjob, cret, failed, null_touched, bitv, hist, notes, parv>>

\* a join that does not wait for the thread
TermJoin_NoWait ==
    /\ Alive /\ cpc[Main] = "term_join"
    /\ join_i < num_workers
    /\ workers # Null
    /\ join_i' = join_i + 1
    /\ UNCHANGED <<pool, mtx, cv_workers, cv_wait, tpc, tjob, cpc, cret, failed,
                   null_touched, bitv, hist, notes, parv>>

\* line 105: _workers[i].join() returns once thread _workers[i] has returned
\* from work_loop
TermJoin ==
    /\ Alive /\ cpc[Main] = "term_join"
    /\ join_i < num_workers
    /\ workers # Null
    /\ tpc[workers.handles[join_i + 1]] = "exited"
    /\ join_i' = join_i + 1
    /\ UNCHANGED <<pool, mtx, cv_workers, cv_wait, tpc, tjob, cpc, cret, failed, null_touched, bitv, hist, notes, parv>>

\* line 105 with _workers == nullptr and i < _num_workers: _workers[i] is a
\* null pointer dereference.  The behaviour is undefined: the process dies, or
\* the call comes back and the loop goes on.
TermJoinNull ==
    /\ Alive /\ cpc[Main] = "term_join"
    /\ join_i < num_workers
    /\ workers = Null
    /\ \/ failed' = "null_deref" /\ UNCHANGED join_i
       \/ failed' = failed /\ join_i' = join_i + 1
    /\ null_touched' = TRUE
    /\ UNCHANGED <<bitv, pool, mtx, cv_workers, cv_wait, tpc, tjob, cpc, cret, hist, notes, parv>>

\* lines 105-110: the loop is over; delete[] _workers; _workers = nullptr
TermFree ==
    /\ Alive /\ cpc[Main] = "term_join"
    /\ join_i >= num_workers
    /\ workers' = Null
    /\ cpc' = [cpc EXCEPT ![Main] = "idle"]
    /\ cret' = [cret EXCEPT ![Main] = "none"]
    /\ fin' = IF cret[Main] = "finish" /\ fin = "active" THEN "returned" ELSE fin
    /\ UNCHANGED <<num_workers, num_jobs, job_queue, running, mtx, cv_workers,
                   cv_wait, tpc, tjob, join_i, failed, null_touched, bitv, hist,
                   term_snap, wait_overlap, parv>>

\* --------------------------------------------------- condition variables
\* std::condition_variable::wait may wake up without a notification
SpuriousWorker(w) ==
    /\ Alive /\ w \in cv_workers
    /\ cv_workers' = cv_workers \ {w}
    /\ tpc' = [tpc EXCEPT ![w] = "lock"]
    /\ UNCHANGED <<pool, mtx, cv_wait, tjob, cpc, cret, join_i, failed, null_touched, bitv, hist, notes, parv>>

SpuriousWaiter(c) ==
    /\ Alive /\ c \in cv_wait
    /\ cv_wait' = cv_wait \ {c}
    /\ cpc' = [cpc EXCEPT ![c] = "wait_wake"]
    /\ UNCHANGED <<pool, mtx, cv_workers, tpc, tjob, cret, join_i, failed, null_touched, bitv, hist, notes, parv>>


\* ------------------------------------------------------- run_in_parallel
\* a minimum that always returns its first argument
Min_First(a, b) == a

\* std::min
Min(a, b) == IF a < b THEN a ELSE b

\* line 245: num_chunks = schedule_factor * pool.num_workers()
NumChunks(sf, nw) == sf * nw

\* line 246: the values range_size / num_chunks can have.  With num_chunks
\* == 0 the division is undefined: the process dies (ParDivZero) or the
\* division yields some value; a value above range_size leads where the value
\* range_size leads, so the values up to range_size are enough.
Quotients(rs, nc) == IF nc # 0 THEN {rs \div nc} ELSE 0..rs

\* lines 246-250: chunk_size is the quotient, raised to min_chunk_size
ChunkSize(q, mcs) == IF q < mcs THEN mcs ELSE q

\* lines 249-252: num_chunks is recomputed when chunk_size was raised
NumChunksAdjusted(rs, nc, q, mcs) == IF q < mcs THEN rs \div mcs ELSE nc

\* an assertion that looks at schedule_factor only
ArgsValid_FactorOnly(sf, mcs) == sf # 0

\* line 240: the condition of assert(schedule_factor != 0 && min_chunk_size != 0)
ArgsValid(sf, mcs) == sf # 0 /\ mcs # 0

\* the jobs pushed by run_in_parallel: those that captured a non-empty range
ChunkJobs == {j \in Jobs : chunk[j][1] # chunk[j][2]}

\* a range that is never taken to be empty
IsEmptyRange_Never(rs) == FALSE

\* line 244: if (range_size == 0)
IsEmptyRange(rs) == rs = 0

\* a fallback taken only when the range is shorter than a chunk
IsSmallRange_Strict(rs, cs) == rs < cs

\* line 255: if (range_size <= chunk_size)
IsSmallRange(rs, cs) == rs <= cs

\* line 240: assert(schedule_factor != 0 && min_chunk_size != 0) fails
ParAssertFail ==
    /\ Alive /\ cpc[Main] = "par_call"
    /\ ~ArgsValid(par.schedule_factor, par.min_chunk_size)
    /\ failed' = "assert"
    /\ UNCHANGED <<pool, mtx, cv_workers, cv_wait, tpc, tjob, cpc, cret, join_i,
                   null_touched, bitv, hist, notes, parv>>

\* lines 243-244: the range is empty, return
ParEmpty ==
    /\ Alive /\ cpc[Main] = "par_call"
    /\ ArgsValid(par.schedule_factor, par.min_chunk_size)
    /\ IsEmptyRange(par.range_size)
    /\ cpc' = [cpc EXCEPT ![Main] = "par_done"]
    /\ UNCHANGED <<pool, mtx, cv_workers, cv_wait, tpc, tjob, cret, join_i, failed,
                   null_touched, bitv, hist, notes, parv>>

\* line 246: range_size / num_chunks with num_chunks == 0 is a division by
\* zero.  The behaviour is undefined: here the process dies; ParSequential and
\* ParSplit are the outcomes in which the division yields a value.
ParDivZero ==
    /\ Alive /\ cpc[Main] = "par_call"
    /\ ArgsValid(par.schedule_factor, par.min_chunk_size)
    /\ ~IsEmptyRange(par.range_size)
    /\ NumChunks(par.schedule_factor, NumWorkers) = 0
    /\ failed' = "div_zero"
    /\ UNCHANGED <<pool, mtx, cv_workers, cv_wait, tpc, tjob, cpc, cret, join_i,
                   null_touched, bitv, hist, notes, parv>>

\* lines 255-258: the range is no longer than a chunk: func is applied to every
\* element on the calling thread, return
ParSequential ==
    /\ Alive /\ cpc[Main] = "par_call"
    /\ ArgsValid(par.schedule_factor, par.min_chunk_size)
    /\ ~IsEmptyRange(par.range_size)
    /\ LET nc == NumChunks(par.schedule_factor, NumWorkers)
       IN  \E q \in Quotients(par.range_size, nc) :
              LET cs == ChunkSize(q, par.min_chunk_size)
              IN  /\ IsSmallRange(par.range_size, cs)
                  /\ par' = [par EXCEPT !.chunk_size = cs,
                                 !.num_chunks = NumChunksAdjusted(par.range_size, nc,
                                                    q, par.min_chunk_size)]
    /\ visited' = [i \in Indices |->
                     IF i < par.range_size THEN visited[i] + 1 ELSE visited[i]]
    /\ applied' = applied \o [k \in 1..par.range_size |-> <<Main, k - 1>>]
    /\ cpc' = [cpc EXCEPT ![Main] = "par_done"]
    /\ UNCHANGED <<pool, mtx, cv_workers, cv_wait, tpc, tjob, cret, join_i, failed,
                   null_touched, bitv, hist, notes, chunk>>

\* lines 261-262: the range is longer than a chunk: idx_begin = 0,
\* idx_end = chunk_size, enter the loop
ParSplit ==
    /\ Alive /\ cpc[Main] = "par_call"
    /\ ArgsValid(par.schedule_factor, par.min_chunk_size)
    /\ ~IsEmptyRange(par.range_size)
    /\ LET nc == NumChunks(par.schedule_factor, NumWorkers)
       IN  \E q \in Quotients(par.range_size, nc) :
              LET cs == ChunkSize(q, par.min_chunk_size)
              IN  /\ ~IsSmallRange(par.range_size, cs)
                  /\ par' = [par EXCEPT !.chunk_size = cs,
                                 !.num_chunks = NumChunksAdjusted(par.range_size, nc,
                                                    q, par.min_chunk_size),
                                 !.idx_begin = 0, !.idx_end = cs]
    /\ cpc' = [cpc EXCEPT ![Main] = "par_loop"]
    /\ cret' = [cret EXCEPT ![Main] = "par"]
    /\ UNCHANGED <<pool, mtx, cv_workers, cv_wait, tpc, tjob, join_i, failed,
                   null_touched, bitv, hist, notes, chunk, visited, applied>>

\* lines 263-269: idx_begin != range_size: enqueue_job is called with the chunk
\* [begin + idx_begin, begin + idx_end) and takes the mutex (line 127)
ParEnqueue ==
    /\ Alive /\ cpc[Main] = "par_loop" /\ CanLock
    /\ par.idx_begin # par.range_size
    /\ Lock(Main)
    /\ cpc' = [cpc EXCEPT ![Main] = "enq"]
    /\ UNCHANGED <<pool, cv_workers, cv_wait, tpc, tjob, cret, join_i, failed,
                   null_touched, bitv, hist, notes, parv>>

\* lines 272-273: move to the range of the next chunk
ParAdvance ==
    /\ Alive /\ cpc[Main] = "par_next"
    /\ par' = [par EXCEPT !.idx_begin = par.idx_end,
                          !.idx_end = Min(par.idx_end + par.chunk_size, par.range_size)]
    /\ cpc' = [cpc EXCEPT ![Main] = "par_loop"]
    /\ UNCHANGED <<pool, mtx, cv_workers, cv_wait, tpc, tjob, cret, join_i, failed,
                   null_touched, bitv, hist, notes, chunk, visited, applied>>

\* a run_in_parallel that returns after the loop without waiting
ParWait_Skip ==
    /\ Alive /\ cpc[Main] = "par_loop"
    /\ par.idx_begin = par.range_size
    /\ cpc' = [cpc EXCEPT ![Main] = "par_done"]
    /\ UNCHANGED <<pool, mtx, cv_workers, cv_wait, tpc, tjob, cret, join_i,
                   failed, null_touched, bitv, hist, notes, parv>>

\* lines 263, 277: idx_begin == range_size: the loop is over, pool.wait() is
\* called and takes the mutex (line 139)
ParWait ==
    /\ Alive /\ cpc[Main] = "par_loop" /\ CanLock
    /\ par.idx_begin = par.range_size
    /\ Lock(Main)
    /\ cpc' = [cpc EXCEPT ![Main] = "wait_locked"]
    /\ UNCHANGED <<pool, cv_workers, cv_wait, tpc, tjob, cret, join_i, failed,
                   null_touched, bitv, hist, notes, parv>>

\* The state in which run_in_parallel(pool, begin, end, func, schedule_factor,
\* min_chunk_size) is called on a pool on which start(n) has just returned
\* (lines 73-83) and up to MaxPending jobs have been pushed by enqueue_job
\* (lines 127-130): n workers at the head of work_loop, _running set.
ParInit ==
    /\ \E n \in 0..MaxWorkers :
          /\ num_workers = n
          /\ workers = Array([i \in 1..n |-> i])
          /\ tpc = [w \in Workers |-> IF w <= n THEN "lock" ELSE "none"]
    /\ \E k \in 0..MaxPending :
          /\ enq_count = k
          /\ job_queue = [j \in 1..k |-> j]
          /\ num_jobs = k
    /\ running = TRUE
    /\ started = TRUE
    /\ cpc = [c \in Clients |-> IF c = Main THEN "par_call" ELSE "idle"]
    /\ \E rs \in 0..MaxRange, sf \in 0..MaxFactor, mcs \in 0..MaxMinChunk :
          par = [NoPar EXCEPT !.range_size = rs, !.schedule_factor = sf,
                              !.min_chunk_size = mcs]
    /\ InitRest
    /\ BitIdle

ParNext ==
    \/ \E w \in Workers : WorkerLock(w)
    \/ \E w \in Workers : WorkerBlock(w)
    \/ \E w \in Workers : WorkerTake(w)
    \/ \E w \in Workers : WorkerAssertFail(w)
    \/ \E w \in Workers : WorkerRun(w)
    \/ \E w \in Workers : WorkerFinish(w)
    \/ ParAssertFail
    \/ ParEmpty
    \/ ParDivZero
    \/ ParSequential
    \/ ParSplit
    \/ ParEnqueue
    \/ EnqBody(Main)
    \/ EnqNotify(Main)
    \/ ParAdvance
    \/ ParWait
    \/ WaitLock(Main)
    \/ WaitBlock(Main)
    \/ WaitReturn(Main)
    \/ \E w \in Workers : SpuriousWorker(w)
    \/ SpuriousWaiter(Main)

ParSpec == ParInit /\ [][ParNext]_vars

\* run_in_parallel while a second thread calls enqueue_job on the same pool
\* (lines 119-132), against the documentation of enqueue_job
ParOtherNext ==
    \/ ParNext
    \/ EnqLock(Other)
    \/ EnqBody(Other)
    \/ EnqNotify(Other)

ParOtherSpec == ParInit /\ [][ParOtherNext]_vars

\* ------------------------------------------------------------ the program
Next ==
    \/ \E w \in Workers : WorkerLock(w)
    \/ \E w \in Workers : WorkerBlock(w)
    \/ \E w \in Workers : WorkerTake(w)
    \/ \E w \in Workers : WorkerAssertFail(w)
    \/ \E w \in Workers : WorkerExit(w)
    \/ \E w \in Workers : WorkerRun(w)
    \/ \E w \in Workers : WorkerFinish(w)
    \/ StartLock
    \/ \E n \in 0..MaxWorkers : StartBody(n)
    \/ StartRun
    \/ \E c \in Clients : EnqLock(c)
    \/ \E c \in Clients : EnqBody(c)
    \/ \E c \in Clients : EnqNotify(c)
    \/ \E c \in Clients : WaitLock(c)
    \/ \E c \in Clients : WaitBlock(c)
    \/ \E c \in Clients : WaitReturn(c)
    \/ FinishCall
    \/ TermLock
    \/ TermBody
    \/ TermNotify
    \/ TermJoin
    \/ TermJoinNull
    \/ TermFree
    \/ \E w \in Workers : SpuriousWorker(w)
    \/ \E c \in Clients : SpuriousWaiter(c)

Spec == Init /\ [][Next]_vars

\* ------------------------------------------------- a second start() call
\* line 74 again: start() is called on a pool on which start() has already
\* returned, against its documentation; the code has no check of _running
StartAgainLock ==
    /\ Alive /\ cpc[Main] = "idle" /\ started /\ CanLock
    /\ Lock(Main)
    /\ cpc' = [cpc EXCEPT ![Main] = "start"]
    /\ UNCHANGED <<pool, cv_workers, cv_wait, tpc, tjob, cret, join_i, failed,
                   null_touched, bitv, hist, notes, parv>>

RestartNext ==
    \/ \E w \in Workers : WorkerLock(w)
    \/ \E w \in Workers : WorkerBlock(w)
    \/ \E w \in Workers : WorkerTake(w)
    \/ \E w \in Workers : WorkerAssertFail(w)
    \/ \E w \in Workers : WorkerRun(w)
    \/ \E w \in Workers : WorkerFinish(w)
    \/ StartLock
    \/ StartAgainLock
    \/ \E n \in 0..MaxWorkers : StartBody(n)
    \/ StartRun
    \/ EnqLock(Main)
    \/ EnqBody(Main)
    \/ EnqNotify(Main)
    \/ \E w \in Workers : SpuriousWorker(w)

RestartSpec == Init /\ [][RestartNext]_vars

\* ------------------------------------------- start() after terminate()
\* lines 97-110 have been run to the end at least once and the main thread
\* is not inside terminate() now
Terminated ==
    /\ term_calls >= 1
    /\ cpc[Main] \notin {"term_call", "term_locked", "term_notify", "term_join"}

\* line 74: start() is called on a pool on which terminate() has returned;
\* the code has no check of the state of the pool
StartAfterTerminate == Terminated /\ StartAgainLock

AfterTermNext == Next \/ StartAfterTerminate

AfterTermSpec == Init /\ [][AfterTermNext]_vars

\* ------------------------------------------------------------ scheduling
\* Every thread that can take a step is eventually scheduled; a thread that
\* asks for the mutex gets it if the mutex is free again and again; a job body
\* returns (WorkerRun); a join returns once the joined thread has returned.
\* Calls that a client thread has not made yet are under no obligation.
Fairness ==
    /\ \A w \in Workers :
          /\ SF_vars(WorkerLock(w))
          /\ SF_vars(WorkerFinish(w))
          /\ WF_vars(WorkerBlock(w))
          /\ WF_vars(WorkerTake(w))
          /\ WF_vars(WorkerAssertFail(w))
          /\ WF_vars(WorkerExit(w))
          /\ WF_vars(WorkerRun(w))
    /\ \A c \in Clients :
          /\ WF_vars(EnqBody(c))
          /\ WF_vars(EnqNotify(c))
          /\ WF_vars(WaitBlock(c))
          /\ WF_vars(WaitReturn(c))
          /\ SF_vars(cpc[c] = "wait_wake" /\ WaitLock(c))
    /\ WF_vars(\E n \in 0..MaxWorkers : StartBody(n))
    /\ WF_vars(StartRun)
    /\ SF_vars(cpc[Main] = "term_call" /\ TermLock)
    /\ WF_vars(TermBody)
    /\ WF_vars(TermNotify)
    /\ WF_vars(TermJoin)
    /\ WF_vars(TermJoinNull)
    /\ WF_vars(TermFree)

FairSpec == Spec /\ Fairness

\* ------------------------------------------------- the pool left untouched
\* the state of a thread_pool that is constructed and never used
PoolIdle ==
    /\ num_workers = 0
    /\ num_jobs = 0
    /\ workers = Null
    /\ job_queue = <<>>
    /\ running = FALSE
    /\ tpc = [w \in Workers |-> "none"]
    /\ cpc = [c \in Clients |-> "idle"]
    /\ started = FALSE
    /\ enq_count = 0
    /\ par = NoPar
    /\ InitRest

\* ------------------------------------------------------------- uint8 bits
\* bit i of the 8-bit value x
Bit(x, i) == (x \div (2 ^ i)) % 2

\* the 8-bit value whose bit i is t[bit i of x][bit i of y]
Bitwise(t, x, y) ==
    t[Bit(x, 0)][Bit(y, 0)] + 2 * t[Bit(x, 1)][Bit(y, 1)]
    + 4 * t[Bit(x, 2)][Bit(y, 2)] + 8 * t[Bit(x, 3)][Bit(y, 3)]
    + 16 * t[Bit(x, 4)][Bit(y, 4)] + 32 * t[Bit(x, 5)][Bit(y, 5)]
    + 64 * t[Bit(x, 6)][Bit(y, 6)] + 128 * t[Bit(x, 7)][Bit(y, 7)]

AndTable == [a \in 0..1 |-> [b \in 0..1 |-> a * b]]
OrTable == [a \in 0..1 |-> [b \in 0..1 |-> (a + b) - a * b]]
XorTable == [a \in 0..1 |-> [b \in 0..1 |-> (a + b) % 2]]

\* byte.h lines 135-138: _val &= b._val
And8(x, y) == Bitwise(AndTable, x, y)

\* byte.h lines 141-144: _val |= b._val
Or8(x, y) == Bitwise(OrTable, x, y)

\* byte.h line 71: the ^ and ^= of two 8-bit values
Xor8(x, y) == Bitwise(XorTable, x, y)

\* byte.h lines 168-171: ~ on a uint8, truncated to 8 bits again
Not8(x) == 255 - x

\* byte.h line 71: -(uint8)b is 0 or, in every bit that the & with the 8-bit
\* mask can keep, all ones
Neg8(b) == IF b THEN 255 ELSE 0

\* byte.h lines 87-88, bitfield.h lines 282-283: _mask(1 << pos), pos < 8
Mask(pos) == 2 ^ pos

\* ------------------------------------------------------------------- byte
\* the bit positions of a byte, and the arguments tried: every position and
\* one that byte::operator[] rejects
Positions == 0..7
PosArgs == 0..8

\* an assignment that flips the bit whatever b is
ByteSet_Toggle(val, mask, b) == Xor8(val, mask)

\* byte.h line 71: _byte._val ^= (-(uint8)b ^ _byte._val) & _mask
ByteSet(val, mask, b) == Xor8(val, And8(Xor8(Neg8(b), val), mask))

\* byte.h lines 79-81: operator bool, _byte._val & _mask converted to bool
ByteGet(val, mask) == And8(val, mask) # 0

\* byte.h lines 215-218 then 70-73: b[p] = v
ByteAssign(p, v) ==
    /\ Alive /\ bit_ops < MaxByteOps
    /\ IF p < 8
         THEN b_val' = ByteSet(b_val, Mask(p), v) /\ failed' = failed
         ELSE failed' = "assert" /\ b_val' = b_val
    /\ bit_ops' = bit_ops + 1
    /\ last' = [op |-> "byte_assign", a |-> p, b |-> p, v |-> v]
    /\ UNCHANGED <<pool, mtx, cv_workers, cv_wait, tpc, tjob, cpc, cret,
                   join_i, null_touched, hist, notes, parv,
                   bf_block, bf_freed, bf_alloc, bf_data, ref>>

\* byte.h lines 65-73: b[p] = b[q] = v; b[q] = v runs first and returns the
\* bitref of bit q, which the copy assignment of b[p] converts to bool
ByteChain(p, q, v) ==
    /\ Alive /\ bit_ops < MaxByteOps
    /\ IF p < 8 /\ q < 8
         THEN LET mid == ByteSet(b_val, Mask(q), v)
              IN  b_val' = ByteSet(mid, Mask(p), ByteGet(mid, Mask(q)))
                  /\ failed' = failed
         ELSE failed' = "assert"
              /\ b_val' = IF q < 8 THEN ByteSet(b_val, Mask(q), v) ELSE b_val
    /\ bit_ops' = bit_ops + 1
    /\ last' = [op |-> "byte_chain", a |-> p, b |-> q, v |-> v]
    /\ UNCHANGED <<pool, mtx, cv_workers, cv_wait, tpc, tjob, cpc, cret,
                   join_i, null_touched, hist, notes, parv,
                   bf_block, bf_freed, bf_alloc, bf_data, ref>>

\* byte.h lines 122-123: byte(val) for every uint8 val
ByteInit ==
    /\ PoolIdle
    /\ bf_block = 0
    /\ bf_freed = FALSE
    /\ bf_alloc = 0
    /\ bf_data = <<>>
    /\ ref = NoRef
    /\ b_val \in 0..255
    /\ bit_ops = 0
    /\ last = NoOp

ByteNext ==
    \/ \E p \in PosArgs, v \in BOOLEAN : ByteAssign(p, v)
    \/ \E p, q \in PosArgs, v \in BOOLEAN : ByteChain(p, q, v)

ByteSpec == ByteInit /\ [][ByteNext]_vars

\* ---------------------------------------------------------------- bitfield
\* bitfield.h line 264: b ? _byte |= _mask : _byte &= ~_mask
\* an assignment that can only set the bit
BitrefSet_OrOnly(val, mask, b) == Or8(val, mask)

BitrefSet(val, mask, b) == IF b THEN Or8(val, mask) ELSE And8(val, Not8(mask))

\* bitfield.h lines 274-276: operator bool, (_byte & _mask) != 0
BitrefGet(val, mask) == And8(val, mask) # 0

\* bitfield.h lines 91-93: size() returns _alloc * 8
Size == bf_alloc * 8

\* bitfield.h lines 300-303 and 274-276: the value read as bf[i] from a block
\* with the bytes data
BitOf(data, i) == BitrefGet(data[(i \div 8) + 1], Mask(i % 8))

\* bitfield.h lines 295-298 and 263-266: the bytes after bf[i] = v
Written(data, i, v) ==
    [data EXCEPT ![(i \div 8) + 1] = BitrefSet(@, Mask(i % 8), v)]

\* bitfield.h lines 204-209: the new block holds the first min(_alloc, new_alloc)
\* bytes of the old one (memcpy) and zero in every byte beyond _alloc (memset)
ReallocData(data, alloc, new_alloc) ==
    [k \in 1..new_alloc |-> IF k <= Min(alloc, new_alloc) THEN data[k] ELSE 0]

\* the block obtained by the next bytealloc: one that no bitref refers to
NewBlock == bit_ops + 2

\* bytes that the allocator may leave in a block it has taken back
Garbage == {0, 1, 255}

\* arguments tried: resize with every multiple of 8 up to the largest size
\* and with the byte counts that bitfield_test.cpp lines 55-66 pass; every
\* bit index and the first one past the largest size; the first and last bit
\* of every byte for the operations with two indices or a stored bitref
ResizeArgs == {8 * k : k \in 0..MaxBytes} \cup (1..MaxBytes)
BitArgs == 0..(8 * MaxBytes)
Corners == {8 * k + o : k \in 0..(MaxBytes - 1), o \in {0, 7}}

\* what every bitfield operation does besides its own effect
BitStep(name, x, y, v) ==
    /\ Alive /\ bit_ops < MaxBitOps /\ last.op # "destroy"
    /\ bit_ops' = bit_ops + 1
    /\ last' = [op |-> name, a |-> x, b |-> y, v |-> v]
    /\ UNCHANGED <<pool, mtx, cv_workers, cv_wait, tpc, tjob, cpc, cret,
                   join_i, null_touched, hist, notes, parv, b_val>>

\* bitfield.h lines 222-225: memfree(_field, _alloc); _alloc = 0. _field keeps
\* its value. Freeing nullptr does nothing; freeing a block that has been
\* freed before is undefined: the allocator ends the process or goes on.
dealloc ==
    /\ bf_alloc' = 0
    /\ bf_data' = <<>>
    /\ bf_block' = bf_block
    /\ IF bf_freed
         THEN bf_freed' = TRUE /\ failed' \in {failed, "double_free"}
         ELSE bf_freed' = (bf_block # 0) /\ failed' = failed

\* bitfield.h lines 196-215. When _field is a block that has been freed
\* before, line 212 frees it a second time, which is undefined: the allocator
\* ends the process, or goes on, or has handed that very block out again at
\* line 204, so that line 212 frees the new block and the bitfield is left
\* with a freed block whose bytes the allocator has overwritten.
realloc(new_alloc) ==
    IF new_alloc = 0 THEN dealloc
    ELSE /\ bf_alloc' = new_alloc
         /\ bf_block' = NewBlock
         /\ IF bf_freed
              THEN \/ /\ failed' = "double_free"
                      /\ bf_freed' = FALSE
                      /\ bf_data' = ReallocData(bf_data, bf_alloc, new_alloc)
                   \/ /\ failed' = failed
                      /\ bf_freed' = FALSE
                      /\ bf_data' = ReallocData(bf_data, bf_alloc, new_alloc)
                   \/ /\ failed' = failed
                      /\ bf_freed' = TRUE
                      /\ bf_data' \in [1..new_alloc -> Garbage]
              ELSE /\ failed' = failed
                   /\ bf_freed' = FALSE
                   /\ bf_data' = ReallocData(bf_data, bf_alloc, new_alloc)

\* bitfield.h lines 102-106: resize(bits)
BitResize(bits) ==
    /\ BitStep("resize", bits, 0, FALSE)
    /\ ref' = ref
    /\ IF bits % 8 # 0
         THEN failed' = "assert"
              /\ UNCHANGED <<bf_block, bf_freed, bf_alloc, bf_data>>
         ELSE realloc(bits \div 8)

\* a write into the block of the bitfield: into a live block it is stored;
\* into a block that has been freed it is undefined, the process ends or the
\* byte is stored in the freed block
Store(data) ==
    \/ failed' = failed /\ bf_data' = data
    \/ bf_freed /\ failed' = "use_after_free" /\ bf_data' = bf_data

\* bitfield.h lines 295-298 then 263-266: bf[i] = v
BitAssign(i, v) ==
    /\ BitStep("assign", i, i, v)
    /\ UNCHANGED <<bf_block, bf_freed, bf_alloc, ref>>
    /\ IF i < bf_alloc * 8
         THEN Store(Written(bf_data, i, v))
         ELSE failed' = "assert" /\ bf_data' = bf_data

\* bitfield.h lines 257-266: bf[i] = bf[j] = v; bf[j] = v runs first and
\* returns the bitref of bit j, which the copy assignment of bf[i] converts
\* to bool
BitChain(i, j, v) ==
    /\ BitStep("chain", i, j, v)
    /\ UNCHANGED <<bf_block, bf_freed, bf_alloc, ref>>
    /\ IF i < bf_alloc * 8 /\ j < bf_alloc * 8
         THEN LET mid == Written(bf_data, j, v)
              IN  Store(Written(mid, i, BitOf(mid, j)))
         ELSE failed' = "assert"
              /\ bf_data' = IF j < bf_alloc * 8 /\ ~bf_freed
                              THEN Written(bf_data, j, v) ELSE bf_data

\* bitfield_test.cpp line 61: for (i = 0; i < size(); i++) bf[i] = true
RECURSIVE Filled(_, _, _)
Filled(data, i, n) ==
    IF i = n THEN data ELSE Filled(Written(data, i, TRUE), i + 1, n)

BitFill ==
    /\ BitStep("fill", 0, 0, TRUE)
    /\ bf_alloc > 0
    /\ UNCHANGED <<bf_block, bf_freed, bf_alloc, ref>>
    /\ Store(Filled(bf_data, 0, Size))

\* bitfield_test.cpp lines 34-35: bitfield::bitref bit = bf[i], which keeps
\* a reference to the byte _field[i / 8] and the mask 1 << i % 8
BitTakeRef(i) ==
    /\ BitStep("take_ref", i, i, FALSE)
    /\ UNCHANGED <<bf_block, bf_freed, bf_alloc, bf_data>>
    /\ IF i < bf_alloc * 8
         THEN failed' = failed /\ ref' = [block |-> bf_block, bit |-> i]
         ELSE failed' = "assert" /\ ref' = ref

\* the stored bitref refers to a byte of the block the bitfield has now
RefLive == ref.block # 0 /\ ref.block = bf_block /\ ~bf_freed /\ bf_alloc > 0

\* bitfield_test.cpp line 40, bitfield.h lines 263-266: bit = v through the
\* stored bitref. If the block it refers to has been freed by a resize the
\* write is undefined: the process ends, or the byte is stored in the freed
\* block, or that block has been handed out again and is the block of the
\* bitfield now.
BitRefAssign(v) ==
    /\ BitStep("ref_assign", ref.bit, ref.bit, v)
    /\ ref.block # 0
    /\ UNCHANGED <<bf_block, bf_freed, bf_alloc, ref>>
    /\ IF ref.block = bf_block /\ bf_alloc > 0
         THEN Store(Written(bf_data, ref.bit, v))
         ELSE \/ failed' = "use_after_free" /\ bf_data' = bf_data
              \/ failed' = failed /\ bf_data' = bf_data
              \/ /\ bf_block > ref.block + 1 /\ ref.bit < bf_alloc * 8
                 /\ failed' = failed
                 /\ bf_data' = Written(bf_data, ref.bit, v)

\* bitfield.h lines 74-77: bitfield(bytes), realloc(bytes) on _field nullptr
\* and _alloc 0
BitInit ==
    /\ PoolIdle
    /\ \E bytes \in 0..MaxBytes :
          /\ bf_alloc = bytes
          /\ bf_block = IF bytes = 0 THEN 0 ELSE 1
          /\ bf_data = ReallocData(<<>>, 0, bytes)
    /\ bf_freed = FALSE
    /\ ref = NoRef
    /\ b_val = 0
    /\ bit_ops = 0
    /\ last = NoOp

BitNext ==
    \/ \E bits \in ResizeArgs : BitResize(bits)
    \/ \E i \in BitArgs, v \in BOOLEAN : BitAssign(i, v)
    \/ \E i, j \in Corners, v \in BOOLEAN : BitChain(i, j, v)
    \/ BitFill
    \/ \E i \in Corners \cup {8 * MaxBytes} : BitTakeRef(i)
    \/ \E v \in BOOLEAN : BitRefAssign(v)

BitSpec == BitInit /\ [][BitNext]_vars

\* ------------------------------------------- bitfield: assign and destroy
\* bitfield.h lines 150-165 and 177-189, called from the assignment operators
\* after dealloc(): assert(dst._field == nullptr) fails when the bitfield has
\* had a block, because dealloc() leaves _field as it was; otherwise the
\* bitfield gets a block with the new_alloc bytes of the source (none for an
\* empty source). The source is a bitfield just made by bitfield(new_alloc).
AssignInto(new_alloc) ==
    /\ ref' = ref
    /\ IF bf_block # 0
         THEN /\ bf_alloc' = 0
              /\ bf_data' = <<>>
              /\ bf_block' = bf_block
              /\ bf_freed' = TRUE
              /\ failed' \in (IF bf_freed THEN {"assert", "double_free"}
                                          ELSE {"assert"})
         ELSE /\ bf_alloc' = new_alloc
              /\ bf_data' = ReallocData(<<>>, 0, new_alloc)
              /\ bf_block' = IF new_alloc = 0 THEN 0 ELSE NewBlock
              /\ bf_freed' = FALSE
              /\ failed' = failed

\* bitfield.h lines 112-117: bf = other, other a different bitfield
BitCopyAssign(bytes) ==
    /\ BitStep("copy_assign", bytes, 0, FALSE)
    /\ AssignInto(bytes)

\* bitfield.h lines 120-125: bf = bitfield(bytes)
BitMoveAssign(bytes) ==
    /\ BitStep("move_assign", bytes, 0, FALSE)
    /\ AssignInto(bytes)

\* bitfield.h lines 80-82: the destructor calls dealloc(); nothing is done
\* with the object afterwards
BitDestroy ==
    /\ BitStep("destroy", 0, 0, FALSE)
    /\ ref' = ref
    /\ dealloc

BitLifeNext ==
    \/ \E bits \in ResizeArgs : BitResize(bits)
    \/ \E i \in BitArgs, v \in BOOLEAN : BitAssign(i, v)
    \/ BitFill
    \/ \E bytes \in 0..MaxBytes : BitCopyAssign(bytes)
    \/ \E bytes \in 0..MaxBytes : BitMoveAssign(bytes)
    \/ BitDestroy

BitLifeSpec == BitInit /\ [][BitLifeNext]_vars

\* ================================================================ claims
AllExited == \A w \in Spawned : tpc[w] = "exited"
AllExecutedOnce == \A j \in 1..enq_count : executed[j] = 1
WaitReturns(c) == cpc[c] = "wait_locked" /\ cpc'[c] \in {"idle", "term_call", "par_done"}
TerminateReturns == cpc[Main] = "term_join" /\ cpc'[Main] = "idle"
IsPrefix(a, b) == Len(a) <= Len(b) /\ SubSeq(b, 1, Len(a)) = a
\* terminate() has cleared _running and it is still clear
Cleared == term_snap.cleared /\ ~running

TypeOK ==
    /\ num_jobs \in 0..(MaxJobs + MaxRange)
    /\ num_workers \in 0..MaxWorkers
    /\ Cardinality(mtx) <= 1
    /\ \A j \in Jobs : executed[j] \in 0..1

\* C1: no job body runs twice, and whenever a wait() call returns, every job
\* pushed so far has been executed exactly once.
C1_Completion ==
    /\ [](\A j \in Jobs : executed[j] <= 1)
    /\ [][(\E c \in Clients : WaitReturns(c)) => AllExecutedOnce]_vars

\* a wait() inside finish() has just returned on a pool with workers, after
\* all MaxJobs jobs were pushed and executed
C1_Witness ==
    /\ cpc[Main] = "term_call"
    /\ num_workers >= 1
    /\ enq_count = MaxJobs
    /\ AllExecutedOnce

\* C2: when finish() was called with no terminate() before it and nothing was
\* pushed after the call, then in every state where a worker has exited or
\* finish() has returned, every pushed job has been executed (exactly once).
C2_NoLostJobsUnderFinish ==
    (fin = "returned" \/ (fin = "active" /\ \E w \in Workers : tpc[w] = "exited"))
    => AllExecutedOnce

\* finish() has returned on a pool with workers after all jobs were pushed
C2_Witness ==
    /\ fin = "returned"
    /\ enq_count = MaxJobs
    /\ num_workers >= 1
    /\ AllExited

\* C4: terminate() never dereferences _workers while it is nullptr: a
\* terminate() that finds the array freed has no worker to join.
C4_SecondTerminateSafe ==
    /\ ~null_touched
    /\ (cpc[Main] = "term_join" /\ workers = Null) => num_workers = 0

C7_NoLostWakeup == (num_jobs = 0) => (cv_wait = {})

\* C7 amended: as long as no two threads have been inside wait() at the same
\* time, no thread is left blocked on _cv_wait when the counter is zero.
C7_NoLostWakeupSingleWaiter == (num_jobs = 0 /\ ~wait_overlap) => (cv_wait = {})

\* the worker that brought the counter to zero has just notified the only
\* thread that was blocked in wait()
C7_Witness ==
    /\ num_jobs = 0 /\ ~wait_overlap /\ enq_count >= 1
    /\ \E w \in Workers : tpc[w] = "locked" /\ Holds(w) /\ executed[enq_count] = 1
    /\ \E c \in Clients : cpc[c] = "wait_wake"

\* C8: the k-th job to leave the queue is the k-th job that was pushed.
C8_FifoDequeue == \A i \in 1..Len(deq_log) : deq_log[i] = i

\* two workers have dequeued all MaxJobs jobs
C8_Witness ==
    /\ Len(deq_log) = MaxJobs
    /\ num_workers >= 2
    /\ \E w \in Workers : tjob[w] = MaxJobs

\* C9: while the pool is running and the mutex is free, _num_jobs is the
\* length of the queue plus the number of jobs taken by a worker whose
\* completion is not yet counted.
C9_CounterInvariant ==
    (running /\ mtx = {}) => num_jobs = Len(job_queue) + Cardinality(Busy)

\* a job queued and two jobs in execution, the mutex free
C9_Witness ==
    /\ running /\ mtx = {}
    /\ Len(job_queue) >= 1
    /\ Cardinality(Busy) >= 2

\* C10: at the step on which terminate() returns, every worker thread has
\* returned from work_loop, so no job is in execution and every completion
\* has been counted.
C10_TerminateJoinsAll ==
    [][TerminateReturns =>
        /\ \A w \in Workers : tpc[w] \in {"none", "exited"}
        /\ Busy = {}
        /\ num_jobs = Len(job_queue)]_vars

\* terminate() has returned on a pool in which a job was in execution when
\* the flag was cleared
C10_Witness ==
    /\ cpc[Main] = "idle" /\ term_calls = 1 /\ term_snap.cleared
    /\ term_snap.busy
    /\ num_workers >= 1 /\ AllExited
    /\ executed[1] = 1

\* C3: for a non-empty or empty range, a pool with at least one worker and
\* non-zero schedule_factor and min_chunk_size, run_in_parallel never fails and,
\* when it has returned, func has been applied exactly once to every index of
\* the range, to no other index, and no job is in execution.
C3_ParallelForCoverage ==
    (num_workers >= 1 /\ par.schedule_factor # 0 /\ par.min_chunk_size # 0) =>
        /\ failed = "none"
        /\ cpc[Main] = "par_done" =>
              /\ \A i \in Indices : visited[i] = IF i < par.range_size THEN 1 ELSE 0
              /\ Busy = {}

\* C11: under fair scheduling, every terminate() call that has taken the mutex
\* eventually returns.
C11_TerminateReturns == (cpc[Main] = "term_locked") ~> (cpc[Main] = "idle")

\* C12: at the step on which terminate() returns, num_workers() returns 0.
C12_ZeroWorkersAfterTerminate == [][TerminateReturns => NumWorkers' = 0]_vars

\* C13: while the pool is running, num_workers() returns the n that start(n)
\* was called with (the length of the array it allocated), and no step taken
\* while the pool is running changes what num_workers() returns.
C13_WorkerCountFixed ==
    /\ [](running => (workers.alloc /\ NumWorkers = Len(workers.handles)))
    /\ [][running => NumWorkers' = NumWorkers]_vars

\* a pool started with MaxWorkers workers on which all jobs were pushed, with
\* a job in execution and a thread blocked in wait()
C13_Witness ==
    /\ running /\ NumWorkers = MaxWorkers
    /\ enq_count = MaxJobs
    /\ Busy # {}
    /\ cv_wait # {}
    /\ executed[1] = 1

\* C14: while the process is alive and the pool is running (from the return of
\* start(n) until terminate() clears the flag), the threads spawned are exactly
\* the n threads of the worker array and none of them has left work_loop.
C14_WorkersStayInLoop ==
    (Alive /\ running) =>
        /\ Cardinality(Spawned) = NumWorkers
        /\ Spawned = {workers.handles[i] : i \in 1..Len(workers.handles)}
        /\ \A w \in Spawned : tpc[w] # "exited"

\* start(MaxWorkers) has returned, every worker has looked at the flag and is
\* blocked waiting for work, terminate() has not been called
C14_Witness ==
    /\ Alive /\ running /\ term_calls = 0
    /\ NumWorkers = MaxWorkers
    /\ cv_workers = Workers

\* C15: the steps of a start() call made while the pool is running leave the
\* worker count and the worker array unchanged and spawn no thread.
C15_SecondStartNoEffect ==
    [][(running /\ cpc[Main] = "start") =>
          /\ NumWorkers' = NumWorkers
          /\ workers' = workers
          /\ Spawned' = Spawned]_vars

\* C16: in a terminate() call on a pool on which start() was never called the
\* join loop is over as soon as it is reached (there is no thread to join and
\* _workers is not dereferenced), and the steps of the call leave the job
\* queue, the counter and the threads as they are.
C16_TerminateUnstarted ==
    /\ []((~started /\ cpc[Main] = "term_join") =>
            (join_i >= num_workers /\ ~null_touched))
    /\ [][(/\ ~started
           /\ cpc[Main] \in {"term_locked", "term_notify", "term_join"}
           /\ cpc'[Main] # cpc[Main]) =>
              /\ job_queue' = job_queue
              /\ num_jobs' = num_jobs
              /\ tpc' = tpc]_vars

\* terminate() has returned on a never-started pool in whose queue it found
\* a job; the job is still there and counted
C16_Witness ==
    /\ ~started /\ cpc[Main] = "idle"
    /\ term_snap.cleared /\ term_snap.queued
    /\ job_queue # <<>>
    /\ num_jobs = Len(job_queue)

\* C17: once start(0) has returned, the queue holds every job pushed so far in
\* push order, the counter is their number, no job body has run, and after the
\* first push no wait() call returns.
C17_ZeroWorkerPool ==
    /\ []((started /\ cpc[Main] \notin {"start", "start_run"} /\ NumWorkers = 0) =>
            /\ job_queue = [i \in 1..enq_count |-> i]
            /\ num_jobs = enq_count
            /\ \A j \in Jobs : executed[j] = 0)
    /\ [][(started /\ NumWorkers = 0 /\ enq_count >= 1) =>
              ~(\E c \in Clients : WaitReturns(c))]_vars

\* after start(0) all MaxJobs jobs were pushed and a thread is blocked in wait()
C17_Witness ==
    /\ started /\ running /\ NumWorkers = 0
    /\ enq_count = MaxJobs
    /\ cv_wait # {}

\* C18: a thread that is at the predicate of wait() with the counter at zero
\* returns from wait() at its next step instead of blocking, and neither that
\* step nor the step that entered wait() changes the pool's members or wakes a
\* thread.
C18_WaitAtZeroReturns ==
    [][\A c \in Clients :
          /\ (cpc[c] = "wait_locked" /\ num_jobs = 0 /\ cpc'[c] # cpc[c]) =>
                (WaitReturns(c) /\ pool' = pool /\ cv_wait' = cv_wait
                 /\ cv_workers' = cv_workers)
          /\ (cpc[c] # "wait_locked" /\ cpc'[c] = "wait_locked") =>
                pool' = pool]_vars

\* the wait() inside finish() has returned on a running pool with workers on
\* which no job was ever pushed
C18_Witness ==
    /\ cpc[Main] = "term_call"
    /\ running /\ NumWorkers >= 1
    /\ enq_count = 0

\* C19: when the arguments are non-zero, the range is not empty and is no
\* longer than the chunk size (taken after the clamp to min_chunk_size),
\* run_in_parallel goes from its call to its return in one step of the calling
\* thread, which applies func to the elements 0, 1, ..., range_size - 1 in this
\* order on that thread, pushes no job, leaves the pool's members and the mutex
\* as they are and never enters wait().
C19_SequentialFallback ==
    [][(/\ cpc[Main] = "par_call" /\ cpc'[Main] # "par_call"
        /\ par.schedule_factor # 0 /\ par.min_chunk_size # 0
        /\ par.range_size # 0 /\ par.schedule_factor * NumWorkers # 0
        /\ par.range_size <= ChunkSize(
                                 par.range_size \div (par.schedule_factor * NumWorkers),
                                 par.min_chunk_size)) =>
          /\ cpc'[Main] = "par_done"
          /\ applied' = applied \o [k \in 1..par.range_size |-> <<Main, k - 1>>]
          /\ enq_count' = enq_count
          /\ pool' = pool
          /\ mtx' = mtx
          /\ cret'[Main] # "par"]_vars

\* a range of at least two elements was processed by the fallback on a pool
\* with workers while another job was outstanding
C19_Witness ==
    /\ cpc[Main] = "par_done"
    /\ par.range_size >= 2 /\ par.range_size <= par.chunk_size
    /\ applied = [k \in 1..par.range_size |-> <<Main, k - 1>>]
    /\ NumWorkers >= 1
    /\ num_jobs >= 1

\* C20: with non-zero arguments and an empty range, a live run_in_parallel
\* call can always take its next step, and that step is its return: it applies
\* func to nothing, pushes no job, takes no lock, does not enter wait() and
\* leaves the pool's members as they are.
C20_EmptyRangeReturns ==
    /\ []((/\ Alive /\ cpc[Main] = "par_call"
           /\ par.schedule_factor # 0 /\ par.min_chunk_size # 0
           /\ par.range_size = 0) => ENABLED ParEmpty)
    /\ [][(/\ cpc[Main] = "par_call" /\ cpc'[Main] # "par_call"
           /\ par.schedule_factor # 0 /\ par.min_chunk_size # 0
           /\ par.range_size = 0) =>
             /\ cpc'[Main] = "par_done"
             /\ applied' = applied /\ visited' = visited
             /\ enq_count' = enq_count
             /\ pool' = pool
             /\ mtx' = mtx
             /\ failed' = failed]_vars

\* run_in_parallel has returned for an empty range on a pool with no worker
\* and an outstanding job
C20_Witness ==
    /\ cpc[Main] = "par_done"
    /\ par.range_size = 0
    /\ NumWorkers = 0
    /\ num_jobs >= 1 /\ job_queue # <<>>
    /\ applied = <<>>

\* C21: while schedule_factor or min_chunk_size is zero, a live
\* run_in_parallel call can fail its assertion, the calling thread gets no
\* further than the assertion, func is applied to no element, no job is pushed
\* and the arguments are left as they were passed, whatever the range.
C21_ZeroArgumentAsserts ==
    /\ []((Alive /\ (par.schedule_factor = 0 \/ par.min_chunk_size = 0)) =>
            ENABLED ParAssertFail)
    /\ []((par.schedule_factor = 0 \/ par.min_chunk_size = 0) =>
            /\ cpc[Main] = "par_call"
            /\ applied = <<>>
            /\ ChunkJobs = {}
            /\ par.num_chunks = 0 /\ par.chunk_size = 0)
    /\ [][(par.schedule_factor = 0 \/ par.min_chunk_size = 0) =>
            (par' = par /\ enq_count' = enq_count)]_vars

\* the assertion of run_in_parallel has failed for an empty range with
\* min_chunk_size == 0 on a pool with no worker thread
C21_Witness ==
    /\ failed = "assert"
    /\ NumWorkers = 0
    /\ par.range_size = 0
    /\ par.schedule_factor # 0 /\ par.min_chunk_size = 0
    /\ cpc[Main] = "par_call"

\* C22: for non-zero arguments and a pool with at least one worker, the number
\* of chunk jobs run_in_parallel has pushed is at most
\* schedule_factor * num_workers.
C22_ChunkCountBound ==
    (NumWorkers >= 1 /\ par.schedule_factor >= 1 /\ par.min_chunk_size >= 1) =>
        Cardinality(ChunkJobs) <= par.schedule_factor * NumWorkers

\* C23: every chunk job that a worker has taken from the queue covers at least
\* min_chunk_size elements.
C23_ChunkAtLeastMin ==
    \A i \in 1..Len(deq_log) :
        deq_log[i] \in ChunkJobs =>
            chunk[deq_log[i]][2] - chunk[deq_log[i]][1] >= par.min_chunk_size

\* C28: a worker that holds the mutex after its wait, with the predicate of
\* the wait true and the pool running, finds the queue non-empty: the
\* assertion of line 194 never fails.
C28_QueueNonEmptyAfterWait ==
    /\ failed # "assert"
    /\ \A w \in Workers :
          (tpc[w] = "locked" /\ Holds(w) /\ WorkPred /\ StillRunning) =>
              job_queue # <<>>

\* C29: at every step on which a wait() call returns, the counter is zero, the
\* queue is empty, no job is in execution with its completion uncounted, and
\* every job pushed so far, by whichever thread and however late, has run.
C29_WaitReturnsAtZero ==
    [][\A c \in Clients : WaitReturns(c) =>
          /\ num_jobs = 0
          /\ job_queue = <<>>
          /\ Busy = {}
          /\ \A j \in 1..enq_count : executed[j] >= 1]_vars

\* the wait() inside the first finish() call has returned after the other
\* thread pushed a job while that wait() had released the mutex, and all
\* MaxJobs jobs have run
C29_Witness ==
    /\ cpc[Main] = "term_call" /\ term_calls = 0
    /\ fin = "void"
    /\ NumWorkers >= 1
    /\ enq_count = MaxJobs
    /\ AllExecutedOnce

\* C30: under fair scheduling, once the pool is running with at least one
\* worker, every job pushed is eventually executed unless terminate() is
\* called.
C30_EveryJobRuns ==
    \A j \in 1..MaxJobs :
        (running /\ NumWorkers >= 1 /\ enq_count >= j) ~>
            (executed[j] >= 1 \/ term_calls > 0)

\* C27: for a byte b, every position p in 0..7 and every bool v, after
\* b[p] = v bit p of b equals v and the other seven bits are unchanged, so
\* uint8(b) differs from the old value exactly by the weight 2^p of that bit;
\* after the chained assignment b[p] = b[q] = v both bits equal v, for every
\* byte value.
BoolBit(v) == IF v THEN 1 ELSE 0

C27_ByteBitAssign ==
    [][/\ (last'.op = "byte_assign" /\ last'.a \in Positions) =>
            /\ failed' = failed
            /\ Bit(b_val', last'.a) = BoolBit(last'.v)
            /\ \A o \in Positions \ {last'.a} : Bit(b_val', o) = Bit(b_val, o)
            /\ b_val' = b_val - Bit(b_val, last'.a) * (2 ^ last'.a)
                              + BoolBit(last'.v) * (2 ^ last'.a)
       /\ (last'.op = "byte_chain" /\ last'.a \in Positions
                                   /\ last'.b \in Positions) =>
            /\ failed' = failed
            /\ Bit(b_val', last'.a) = BoolBit(last'.v)
            /\ Bit(b_val', last'.b) = BoolBit(last'.v)]_vars

\* byte_test.cpp lines 39-57: 0b10100101 after b[0] = b[7] = false
C27_Witness ==
    /\ last = [op |-> "byte_chain", a |-> 0, b |-> 7, v |-> FALSE]
    /\ b_val = 36
    /\ bit_ops = 1
    /\ Alive

\* C24: the bits of a bitfield made by bitfield(bytes) read false, and after
\* every resize the bits below the old size read what they read before while
\* the bits from the old size on read false.
AllBits(n) == 0..(n - 1)

C24_ResizeKeepsAndZeroes ==
    [][/\ bit_ops = 0 => \A i \in AllBits(Size) : ~BitOf(bf_data, i)
       /\ (last'.op = "resize" /\ failed' = "none") =>
            \A i \in AllBits(Size') :
               BitOf(bf_data', i) = (IF i < Size THEN BitOf(bf_data, i)
                                                ELSE FALSE)]_vars

\* the same for the bitfields that have not been resized to zero before
C24_ResizeOfLiveBlock ==
    [][/\ bit_ops = 0 => \A i \in AllBits(Size) : ~BitOf(bf_data, i)
       /\ (last'.op = "resize" /\ failed' = "none" /\ ~bf_freed) =>
            \A i \in AllBits(Size') :
               BitOf(bf_data', i) = (IF i < Size THEN BitOf(bf_data, i)
                                                ELSE FALSE)]_vars

\* bitfield_test.cpp lines 60-68 with sizes in bits: all bits set, resize(8),
\* resize(16)
C24_ShrinkGrowReached ==
    /\ Alive /\ last.op = "resize" /\ bit_ops = 3
    /\ bf_alloc = 2 /\ ~bf_freed
    /\ \A i \in 0..7 : BitOf(bf_data, i)
    /\ \A i \in 8..15 : ~BitOf(bf_data, i)

\* C25: after resize(n), for the n that bitfield_test.cpp lines 55-58 pass,
\* the call has returned and size() is 8 * n.
C25_SizeIsEightTimesArgument ==
    [][last'.op = "resize" => (failed' = failed /\ Size' = 8 * last'.a)]_vars

\* what the code does instead: resize(bits) with bits a multiple of 8
\* leaves size() equal to bits
C25_SizeIsArgument ==
    [][(last'.op = "resize" /\ last'.a % 8 = 0 /\ failed' = "none")
          => Size' = last'.a]_vars

\* C26 as stated: bf[i] = v, directly or through a stored bitref of bit i,
\* makes bit i read v and leaves every other bit as it was, whenever the
\* bitref was taken; bf[a] = bf[b] = v makes both bits read v.
AssignEffect(i, v) ==
    /\ i < Size'
    /\ BitOf(bf_data', i) = v
    /\ Size' = Size
    /\ \A o \in AllBits(Size) \ {i} : BitOf(bf_data', o) = BitOf(bf_data, o)

ChainEffect ==
    (last'.op = "chain" /\ failed' = "none") =>
        BitOf(bf_data', last'.a) = last'.v /\ BitOf(bf_data', last'.b) = last'.v

C26_BitrefAlwaysAlias ==
    [][/\ (last'.op = "assign" /\ failed' = "none")
            => AssignEffect(last'.a, last'.v)
       /\ (last'.op = "ref_assign" /\ failed' = "none")
            => AssignEffect(ref.bit, last'.v)
       /\ ChainEffect]_vars

\* C26, amended: the same, for a stored bitref only while the bitfield has
\* not been resized since the bitref was taken.
C26_BitrefAliasUntilResize ==
    [][/\ (last'.op = "assign" /\ failed' = "none")
            => AssignEffect(last'.a, last'.v)
       /\ (last'.op = "ref_assign" /\ failed' = "none" /\ RefLive)
            => AssignEffect(ref.bit, last'.v)
       /\ ChainEffect]_vars

\* bitfield_test.cpp lines 34-42: bit = true through a stored bitref, read
\* back as bf[i]
C26_Witness ==
    /\ Alive /\ last.op = "ref_assign" /\ last.v
    /\ RefLive
    /\ BitOf(bf_data, ref.bit)
    /\ \E o \in AllBits(Size) : ~BitOf(bf_data, o)

\* C31: a worker does not hold the pool mutex while its job body runs: in
\* every state where a job is mid-execution the worker running it is not the
\* holder, and when nobody else holds the mutex a call of enqueue_job and the
\* dequeue of every other worker that asks for the lock can take it.
C31_NoLockDuringJob ==
    \A w \in Workers :
       (Alive /\ tpc[w] = "exec") =>
          /\ ~Holds(w)
          /\ mtx = {} =>
               /\ \A c \in Clients :
                     (cpc[c] = "idle" /\ enq_count < MaxJobs) => ENABLED EnqLock(c)
               /\ \A v \in Workers \ {w} :
                     tpc[v] = "lock" => ENABLED WorkerLock(v)

\* two jobs mid-execution at once while enqueue_job holds the mutex
C31_Witness ==
    /\ Alive
    /\ \A w \in Workers : tpc[w] = "exec"
    /\ cpc[Main] = "enq" /\ Holds(Main)

\* C32: every step that changes the job queue, the outstanding-job counter
\* or the running flag is taken by a thread that holds the pool mutex in that
\* step, and the mutex never has more than one holder.
Moved(t) ==
    \/ t \in Workers /\ tpc'[t] # tpc[t]
    \/ t \in Clients /\ cpc'[t] # cpc[t]

C32_WritesUnderMutex ==
    [][/\ Cardinality(mtx) <= 1 /\ Cardinality(mtx') <= 1
       /\ (job_queue' # job_queue \/ num_jobs' # num_jobs \/ running' # running)
             => \E t \in mtx \cup mtx' : Moved(t)]_vars

\* a worker has counted a finished job down and still holds the mutex, after
\* start, enqueue_job and the dequeue have each written under it
C32_Witness ==
    /\ Alive /\ running
    /\ enq_count = 1 /\ num_jobs = 0 /\ executed[1] = 1
    /\ \E w \in Workers : mtx = {w} /\ tpc[w] = "locked"

\* C33: once terminate() has returned, no call of enqueue_job, wait, start
\* or terminate makes a worker thread exist again or a job execute.
C33_TerminatedIsTerminal ==
    [][Terminated =>
          /\ \A w \in Workers :
                tpc[w] \in {"none", "exited"} => tpc'[w] = tpc[w]
          /\ executed' = executed]_vars

\* thread_pool p; p.start(1); p.terminate(); p.enqueue_job(f); p.start(1):
\* the first worker has returned and the second one runs f
C33_RevivedReached ==
    /\ Alive /\ ~null_touched /\ term_calls = 1 /\ Terminated
    /\ \E w, v \in Workers : tpc[w] = "exited" /\ tpc[v] = "exec"

\* C34: when the range is not handled on the calling thread, the jobs pushed
\* by run_in_parallel carry, in the order they are pushed, the index ranges
\* [k * chunk_size, min((k + 1) * chunk_size, range_size)) for k = 0, 1, ...;
\* each is non-empty; idx_begin and idx_end never pass range_size; when the
\* loop is over idx_begin is range_size, ceil(range_size / chunk_size) jobs
\* have been pushed and every index of the range lies in exactly one of them.
LoopOver ==
    /\ cret[Main] = "par"
    /\ cpc[Main] \in {"wait_locked", "wait_blocked", "wait_wake", "par_done"}

FirstChunkJob == CHOOSE f \in ChunkJobs : \A j \in ChunkJobs : f <= j

Partitioned ==
    /\ par.idx_begin <= par.range_size /\ par.idx_end <= par.range_size
    /\ ChunkJobs # {} =>
          /\ ChunkJobs = FirstChunkJob..(FirstChunkJob + Cardinality(ChunkJobs) - 1)
          /\ \A j \in ChunkJobs :
                LET k == j - FirstChunkJob
                IN  chunk[j] = <<k * par.chunk_size,
                                 IF (k + 1) * par.chunk_size < par.range_size
                                   THEN (k + 1) * par.chunk_size
                                   ELSE par.range_size>>
    /\ LoopOver =>
          /\ par.idx_begin = par.range_size
          /\ Cardinality(ChunkJobs) =
                (par.range_size + par.chunk_size - 1) \div par.chunk_size
          /\ \A i \in 0..(par.range_size - 1) :
                Cardinality({j \in ChunkJobs : InChunk(i, chunk[j])}) = 1

C34_ChunkPartition ==
    [][Alive' =>
          /\ Partitioned'
          /\ enq_count' # enq_count =>
                chunk'[enq_count'][1] < chunk'[enq_count'][2]]_vars

\* a range of 3 split into [0, 2) and [2, 3): the last chunk is the shorter
C34_Witness ==
    /\ Alive /\ LoopOver /\ cpc[Main] = "par_done"
    /\ Cardinality(ChunkJobs) = 2
    /\ \E j \in ChunkJobs : chunk[j][2] - chunk[j][1] < par.chunk_size

\* C35: the chunk_size with which run_in_parallel partitions a non-empty
\* range is max(floor(range_size / (schedule_factor * num_workers)),
\* min_chunk_size), a value that exists and is at least 1.
ChunkSizeChosen ==
    /\ cpc[Main] = "par_call" /\ par.range_size # 0
    /\ cpc'[Main] \in {"par_loop", "par_done"}

Max(a, b) == IF a > b THEN a ELSE b

C35_ChunkSizeFormula ==
    [][ChunkSizeChosen =>
          LET nc == par.schedule_factor * NumWorkers
          IN  /\ nc # 0
              /\ par'.chunk_size = Max(par.range_size \div nc, par.min_chunk_size)
              /\ par'.chunk_size >= 1]_vars

\* the same for the pools that have at least one worker
C35_ChunkSizeWithWorkers ==
    [][(ChunkSizeChosen /\ NumWorkers >= 1) =>
          LET nc == par.schedule_factor * NumWorkers
          IN  /\ nc # 0
              /\ par'.chunk_size = Max(par.range_size \div nc, par.min_chunk_size)
              /\ par'.chunk_size >= 1]_vars

\* with no worker the division has no defined result, but a chunk_size that
\* comes out of it is still at least min_chunk_size
C35_ChunkSizePositive ==
    [][ChunkSizeChosen => par'.chunk_size >= Max(par.min_chunk_size, 1)]_vars

\* C37: whenever run_in_parallel reaches the division of line 246 (valid
\* arguments, non-empty range), on any pool, the divisor num_chunks =
\* schedule_factor * num_workers is not zero.
C37_DivisorNonZero ==
    (/\ Alive /\ cpc[Main] = "par_call"
     /\ ArgsValid(par.schedule_factor, par.min_chunk_size)
     /\ ~IsEmptyRange(par.range_size))
       => NumChunks(par.schedule_factor, NumWorkers) # 0

\* the division by zero has ended the process
C37_DivZeroReached == failed = "div_zero"

\* C36 as stated: run_in_parallel does not return while a job of the pool,
\* its own chunk or a job pushed by another caller before or during the
\* call, is still queued or executing.
ParReturns == cpc[Main] # "par_done" /\ cpc'[Main] = "par_done"

PoolQuiet ==
    /\ num_jobs = 0
    /\ job_queue = <<>>
    /\ Busy = {}
    /\ \A j \in 1..enq_count : executed[j] = 1

C36_ReturnsOnlyWhenQuiet == [][(ParReturns /\ Alive) => PoolQuiet]_vars

\* C36, amended: the same when run_in_parallel has split the range into
\* chunks and so returns from the wait of line 277; for an empty range and
\* for a range run on the calling thread it returns without waiting.
C36_WaitReturnsOnlyWhenQuiet ==
    [][(ParReturns /\ Alive /\ cret[Main] = "par") => PoolQuiet]_vars

\* run_in_parallel has returned from its wait after a job that another
\* thread pushed behind the first chunk has been executed
C36_Witness ==
    /\ Alive /\ cpc[Main] = "par_done" /\ cret[Main] = "par"
    /\ \E i, j \in 1..enq_count :
          /\ i < j /\ i \in ChunkJobs /\ j \notin ChunkJobs
          /\ executed[j] = 1

\* C38: jobs pushed before start() stay in the queue in the order they were
\* pushed, with the counter equal to their number; once start(n) with n >= 1
\* has spawned the workers each of them is eventually executed, whether or
\* not enqueue_job is called again (terminate() not being called).
HeldBeforeStart ==
    (~started /\ term_calls = 0) =>
        /\ job_queue = [j \in 1..enq_count |-> j]
        /\ num_jobs = enq_count

C38_IdleJobsRunAfterStart ==
    /\ []HeldBeforeStart
    /\ \A j \in 1..MaxJobs :
          (cpc[Main] = "start_run" /\ NumWorkers >= 1 /\ enq_count >= j)
             ~> (executed[j] >= 1 \/ term_calls > 0)

\* the same for a pool started with one worker
C38_IdleJobsRunOneWorker ==
    /\ []HeldBeforeStart
    /\ \A j \in 1..MaxJobs :
          (cpc[Main] = "start_run" /\ NumWorkers = 1 /\ enq_count >= j)
             ~> (executed[j] >= 1 \/ term_calls > 0)

\* two jobs pushed before start(2): one is taken, the other worker fails
\* the assertion of line 194
C38_AssertReached ==
    /\ failed = "assert" /\ started /\ NumWorkers = 2
    /\ \E j \in 1..MaxJobs : enq_count >= j /\ executed[j] = 0

\* C39: over every sequence of construction, resize, copy and move
\* assignment and destruction of a bitfield, the object never keeps a
\* pointer to a block it has freed, and no block is freed a second time.
C39_EveryBlockFreedOnce ==
    /\ last.op # "destroy" => ~bf_freed
    /\ failed # "double_free"

\* bitfield bf(1); bf.resize(0); and the destructor: the block is freed twice
C39_DoubleFreeReached == failed = "double_free" /\ last.op = "destroy"

\* bitfield bf(1); bf = other: the assertion of copy_into fails
C39_AssignAssertReached == failed = "assert" /\ last.op = "copy_assign"

====
